---- MODULE Spec2Model ----
(***************************************************************************)
(* Ledger core of backend/main.py: the timeline handlers                   *)
(* create_timeline_operation, update_timeline_operation and                *)
(* delete_timeline_operation, with the helpers they call                   *)
(* (validate_operation_data, get_account_for_payment_method,               *)
(* update_account_balance) and the tables they read and write.             *)
(*                                                                         *)
(* Money is counted in whole units of the DECIMAL(15, 2) grid of the       *)
(* accounts and timeline tables; requests carry amounts on that grid.      *)
(* Each handler is one action: it runs on its own connection and either    *)
(* commits everything it staged or rolls everything back.                  *)
(*                                                                         *)
(* Specifications:                                                         *)
(*   Spec      the ledger, one request at a time                           *)
(*   SpecEdit  the ledger with edits of date and category, by every role   *)
(*   SpecAdmin the ledger with update_account, delete_account and          *)
(*             update_payment_method                                       *)
(*   SpecAccounts the ledger with create_account, update_account and       *)
(*             delete_account, from a table of one account                 *)
(*   SpecRetarget the ledger with Updates that name accounts and a         *)
(*             location                                                    *)
(*   SpecStored Updates and Deletes on a ledger that holds two rows        *)
(*   SpecFail  the ledger on connections that fail at a statement          *)
(*   SpecConc  create_timeline_operation on two connections at once, one   *)
(*             statement at a time                                         *)
(*   SpecOverlap update_timeline_operation and delete_timeline_operation   *)
(*             of one stored row on two connections at once                *)
(*   SpecRead  the ledger with the endpoints that read a row and the       *)
(*             totals of an account                                        *)
(*                                                                         *)
(* The columns description and location_id of timeline are not modelled:   *)
(* no handler reads them, and the Update handler writes description        *)
(* exactly as it writes date.                                              *)
(***************************************************************************)
EXTENDS Integers, FiniteSets, Sequences, TLC

VARIABLES
    accounts,         \* table accounts: id -> [type, is_active, initial_balance, current_balance]
    payment_methods,  \* table payment_methods: id -> [name, is_active]
    users,            \* table users: id -> [role, is_active]
    timeline,         \* table timeline: id -> row
    timeline_seq,     \* last value handed out by the SERIAL sequence of timeline.id
    applied_account,  \* history: timeline id -> the account_id Create resolved and used
    last,             \* the last request served and the response it got
    fault,            \* the statement at which the connection of the next request fails
    sessions          \* requests in flight on connections of their own: session -> locals

vars == <<accounts, payment_methods, users, timeline, timeline_seq, applied_account, last,
          fault, sessions>>

----------------------------------------------------------------------------
(* Bounds of the model *)

MaxAmount == 2          \* request amounts range over -1 .. MaxAmount
MaxInitialBalance == 1  \* account 1 starts with MaxInitialBalance, account 2 with 0
MaxBalance == 3         \* no action takes a balance above MaxBalance
MaxSeq == 1             \* the timeline sequence hands out ids 1 .. MaxSeq
MaxFault == 7           \* a failing connection fails at statement 1 .. MaxFault of a request

----------------------------------------------------------------------------
(* Values *)

None == -99             \* Python None / SQL NULL in an integer field
NoneStr == "None"       \* Python None / SQL NULL in a text field

AccountIds == {1, 2}
AccountTypes == {"cash", "bank", "card"}
UserIds == {1, 2}
PaymentMethodIds == {1, 2}
MissingId == 3          \* an id that no table holds
SessionIds == {1, 2}    \* two connections served at the same time

NoErr == [status_code |-> 200, detail |-> "OK"]

\* A connection that serves no request
IdleSession ==
    [pc |-> "idle", handler |-> "none", operation |-> [empty |-> TRUE], user_id |-> None,
     operation_id |-> None, operation_update |-> [empty |-> TRUE],
     account_id |-> None, new_operation_id |-> None,
     legs |-> << >>, new_balance |-> None, staged |-> << >>, row_staged |-> FALSE,
     status_code |-> 0, detail |-> "None"]
HTTPException(code, text) == [status_code |-> code, detail |-> text]

\* What an exception no handler catches is answered with
InternalServerError == HTTPException(500, "Internal Server Error")

\* Payment method names.  The module is ASCII: "Nalichnye" and "Karta" are
\* the transliterations of the two seeded Cyrillic names the model uses.
\* str.lower() on the names in use:
Lower(s) ==
    CASE s = "Nalichnye" -> "nalichnye"
      [] s = "Cash"      -> "cash"
      [] s = "Cash desk" -> "cash desk"
      [] s = "Karta"     -> "karta"
      [] OTHER           -> s

\* "cash" in s or "nalichn" in s, for the lower-case names in use
ContainsCashWord(s) == s \in {"nalichnye", "cash", "cash desk"}

----------------------------------------------------------------------------
(* Initial state: the seeded users and payment methods, and accounts       *)
(* as create_account / update_account / delete_account can have left them. *)

Init ==
    /\ \E t2 \in {"cash", "bank"}, act1 \in BOOLEAN, act2 \in BOOLEAN :
          accounts = (1 :> [type |-> "cash", is_active |-> act1,
                            initial_balance |-> MaxInitialBalance,
                            current_balance |-> MaxInitialBalance])
                  @@ (2 :> [type |-> t2, is_active |-> act2,
                            initial_balance |-> 0, current_balance |-> 0])
    /\ payment_methods = (1 :> [name |-> "Nalichnye", is_active |-> TRUE])
                      @@ (2 :> [name |-> "Karta", is_active |-> TRUE])
    /\ users = (1 :> [role |-> "owner", is_active |-> TRUE])
            @@ (2 :> [role |-> "cashier", is_active |-> TRUE])
    /\ timeline = << >>
    /\ timeline_seq = 0
    /\ applied_account = << >>
    /\ last = [op |-> "none", user_id |-> None, operation_id |-> None,
               request |-> [empty |-> TRUE],
               status_code |-> 200, detail |-> "OK", writes |-> 0, committed |-> FALSE,
               result |-> [empty |-> TRUE]]
    /\ fault = None
    /\ sessions = [s \in SessionIds |-> IdleSession]

----------------------------------------------------------------------------
(* The unit of work of one handler: the rows as the handler's connection   *)
(* sees them, the exception raised so far (NoErr while none), the number   *)
(* of balance writes staged, the number of statements the connection       *)
(* still executes before it fails (None: it does not fail), and whether    *)
(* conn.commit() has returned.  Once err is set, the statements that       *)
(* follow are skipped, as after a Python raise.                            *)
(* fault is the failure the connection of this request meets; each action  *)
(* draws the one the next request meets.                                   *)

Begin == [accounts |-> accounts, timeline |-> timeline, err |-> NoErr, writes |-> 0,
          fuel |-> fault, committed |-> FALSE]

Raise(tx, e) == IF tx.err = NoErr THEN [tx EXCEPT !.err = e] ELSE tx

\* What the except Exception clauses make of an error of the connection
StoreFailure == HTTPException(500, "Failed: store failure")

\* cursor.execute / conn.commit on the handler's connection: the statement
\* runs, or the connection fails and psycopg2 raises
Execute(tx) ==
    IF tx.err # NoErr \/ tx.fuel = None THEN tx
    ELSE IF tx.fuel <= 1 THEN [tx EXCEPT !.err = StoreFailure, !.fuel = 0]
    ELSE [tx EXCEPT !.fuel = @ - 1]

\* update_account_balance without the check of the new balance
update_account_balance_unchecked(account_id, amount_change, tx) ==
    LET selected == Execute(tx) IN
    IF selected.err # NoErr THEN selected
    ELSE IF account_id \notin DOMAIN tx.accounts
    THEN Raise(selected, HTTPException(404, "Account not found"))
    ELSE LET updated == Execute(selected) IN
         IF updated.err # NoErr THEN updated
         ELSE [updated EXCEPT !.accounts[account_id].current_balance = @ + amount_change,
                              !.writes = @ + 1]

\* SELECT current_balance, the check of the new balance, UPDATE accounts
update_account_balance(account_id, amount_change, tx) ==
    LET selected == Execute(tx) IN
    IF selected.err # NoErr THEN selected
    ELSE IF account_id \notin DOMAIN tx.accounts
    THEN Raise(selected, HTTPException(404, "Account not found"))
    ELSE LET new_balance == tx.accounts[account_id].current_balance + amount_change IN
         IF new_balance < 0
         THEN Raise(selected, HTTPException(400, "Insufficient funds in account"))
         ELSE LET updated == Execute(selected) IN
              IF updated.err # NoErr THEN updated
              ELSE [updated EXCEPT !.accounts[account_id].current_balance = new_balance,
                                   !.writes = @ + 1]

\* Outcome with nothing rolled back: every statement committed as it ran
Outcome_no_rollback(tx) == Execute(tx)

\* conn.commit() on success, conn.rollback() in the except clauses
Outcome(tx) ==
    LET committed == Execute(tx) IN
    IF committed.err = NoErr THEN [committed EXCEPT !.committed = TRUE]
    ELSE [committed EXCEPT !.accounts = accounts, !.timeline = timeline]

\* The SELECT that reads the row back for the response, after conn.commit():
\* when it fails, the rollback of the except clause has nothing left to undo
ReadBack(tx) == Execute(tx)

\* validate_operation_data without the check of the amount
validate_operation_data_no_amount(operation) ==
    IF operation.type \notin {"expense", "income", "transfer"}
    THEN HTTPException(400, "Invalid operation type")
    ELSE IF /\ operation.type \in {"expense", "income"}
            /\ (operation.category_id \in {None, 0} \/ operation.category_type # operation.type)
    THEN HTTPException(400, "Must have category")
    ELSE IF operation.type \in {"expense", "income"} /\ operation.payment_method_id \in {None, 0}
    THEN HTTPException(400, "Must have payment method")
    ELSE IF /\ operation.type = "transfer"
            /\ (operation.from_account_id \in {None, 0} \/ operation.to_account_id \in {None, 0})
    THEN HTTPException(400, "Transfer must have from_account and to_account")
    ELSE IF operation.type = "transfer" /\ operation.from_account_id = operation.to_account_id
    THEN HTTPException(400, "Cannot transfer to the same account")
    ELSE NoErr

\* Returns the exception validation raises, NoErr when it passes
validate_operation_data(operation) ==
    IF operation.type \notin {"expense", "income", "transfer"}
    THEN HTTPException(400, "Invalid operation type")
    ELSE IF /\ operation.type = "expense"
            /\ (operation.category_id \in {None, 0} \/ operation.category_type # "expense")
    THEN HTTPException(400, "Expense must have expense category")
    ELSE IF operation.type = "expense" /\ operation.payment_method_id \in {None, 0}
    THEN HTTPException(400, "Expense must have payment method")
    ELSE IF /\ operation.type = "income"
            /\ (operation.category_id \in {None, 0} \/ operation.category_type # "income")
    THEN HTTPException(400, "Income must have income category")
    ELSE IF operation.type = "income" /\ operation.payment_method_id \in {None, 0}
    THEN HTTPException(400, "Income must have payment method")
    ELSE IF /\ operation.type = "transfer"
            /\ (operation.from_account_id \in {None, 0} \/ operation.to_account_id \in {None, 0})
    THEN HTTPException(400, "Transfer must have from_account and to_account")
    ELSE IF operation.type = "transfer" /\ operation.from_account_id = operation.to_account_id
    THEN HTTPException(400, "Cannot transfer to the same account")
    ELSE IF operation.amount <= 0
    THEN HTTPException(400, "Amount must be positive")
    ELSE NoErr

\* get_one('accounts', where): a SELECT without ORDER BY, read with
\* fetchone(): any one of the rows that match.
ActiveAccountsOfType(account_type) ==
    {a \in DOMAIN accounts : accounts[a].type = account_type /\ accounts[a].is_active}

ActiveAccounts == {a \in DOMAIN accounts : accounts[a].is_active}

\* get_account_for_payment_method with the name matched as a substring
get_account_for_payment_method_substring(payment_method_id) ==
    IF payment_method_id \notin DOMAIN payment_methods
    THEN {[err |-> HTTPException(404, "Payment method not found"), account_id |-> None]}
    ELSE LET account_type ==
                 IF ContainsCashWord(Lower(payment_methods[payment_method_id].name))
                 THEN "cash" ELSE "bank"
             typed == ActiveAccountsOfType(account_type)
             found == IF typed # {} THEN typed ELSE ActiveAccounts
         IN  IF found = {}
             THEN {[err |-> HTTPException(404, "No active accounts found"), account_id |-> None]}
             ELSE {[err |-> NoErr, account_id |-> a] : a \in found}

\* The set of results the call can have: [err, account_id]
get_account_for_payment_method(payment_method_id) ==
    IF payment_method_id \notin DOMAIN payment_methods
    THEN {[err |-> HTTPException(404, "Payment method not found"), account_id |-> None]}
    ELSE LET account_type ==
                 IF Lower(payment_methods[payment_method_id].name) \in {"nalichnye", "cash"}
                 THEN "cash" ELSE "bank"
             typed == ActiveAccountsOfType(account_type)
             found == IF typed # {} THEN typed ELSE ActiveAccounts
         IN  IF found = {}
             THEN {[err |-> HTTPException(404, "No active accounts found"), account_id |-> None]}
             ELSE {[err |-> NoErr, account_id |-> a] : a \in found}

----------------------------------------------------------------------------
(* Requests *)

Request(type, category_id, category_type, pm, from, to, amount, commission) ==
    [date |-> "2025-01-01", type |-> type,
     category_id |-> category_id, category_type |-> category_type,
     payment_method_id |-> pm,
     from_account_id |-> from, to_account_id |-> to,
     amount |-> amount, commission_amount |-> commission, account_id |-> None]

\* Bodies of POST /timeline that pass validate_operation_data
ValidExpenseIncome ==
    {Request(t, 1, t, pm, None, None, amt, 0) :
        t \in {"expense", "income"}, pm \in PaymentMethodIds, amt \in 1 .. MaxAmount}

\* commission_amount and account_id are not fields of TimelineOperationCreate:
\* a body that carries one is accepted and the field is dropped.
ValidTransfers ==
    {r \in {Request("transfer", None, NoneStr, None, f, t, amt, c) :
                f \in AccountIds, t \in AccountIds, amt \in 1 .. MaxAmount, c \in {0, 1}} :
        r.from_account_id # r.to_account_id}

\* The valid bodies the invalid ones are derived from
BaseExpenseIncome == {r \in ValidExpenseIncome : r.amount = 1 /\ r.payment_method_id = 1}
BaseTransfers == {r \in ValidTransfers : /\ r.amount = 1 /\ r.commission_amount = 0
                                          /\ r.from_account_id = 1}

\* Bodies of POST /timeline: the valid ones, and valid ones with one field
\* missing, of the wrong kind, unknown to the tables, or not positive
CreateRequests ==
    ValidExpenseIncome \cup ValidTransfers
    \cup {[r EXCEPT !.category_id = None] : r \in BaseExpenseIncome}
    \cup {[r EXCEPT !.category_type = IF r.type = "expense" THEN "income" ELSE "expense"] :
            r \in BaseExpenseIncome}
    \cup {[r EXCEPT !.category_type = NoneStr] : r \in BaseExpenseIncome}
    \cup {[r EXCEPT !.payment_method_id = pm] : r \in BaseExpenseIncome, pm \in {None, MissingId}}
    \cup {[r EXCEPT !.amount = amt] : r \in BaseExpenseIncome \cup BaseTransfers, amt \in {-1, 0}}
    \cup {[r EXCEPT !.from_account_id = f] : r \in BaseTransfers, f \in {None, MissingId}}
    \cup {[r EXCEPT !.to_account_id = t] : r \in BaseTransfers, t \in {None, MissingId}}
    \cup {[r EXCEPT !.to_account_id = r.from_account_id] : r \in BaseTransfers}
    \cup {[r EXCEPT !.type = "incasation"] : r \in BaseTransfers}
    \cup {[r EXCEPT !.account_id = 2, !.payment_method_id = pm] :
            r \in BaseExpenseIncome, pm \in {None, 1}}

\* Bodies of PUT /timeline/{id}: every field is optional.  Spec sends the
\* two fields that decide the balances.
UpdateRequests ==
    [date : {NoneStr},
     category_id : {None}, category_type : {NoneStr},
     payment_method_id : {None} \cup PaymentMethodIds \cup {MissingId},
     amount : {None} \cup ((-1) .. MaxAmount)]

\* A request without a body
NoBody == [empty |-> TRUE]

\* A response that carries no record
NoResult == [empty |-> TRUE]

\* What last records: the request (handler, caller, path id, body) and the
\* response (status code and detail; 200 "OK" on success), with the number of
\* balance writes the handler had staged when it returned and whether its
\* transaction was committed.  result is the record a read endpoint returns.
Response(op, user_id, operation_id, request, e, writes, committed) ==
    [op |-> op, user_id |-> user_id, operation_id |-> operation_id,
     request |-> request,
     status_code |-> e.status_code, detail |-> e.detail, writes |-> writes,
     committed |-> committed, result |-> NoResult]

BalanceCap(accts) == \A a \in DOMAIN accts : accts[a].current_balance <= MaxBalance

----------------------------------------------------------------------------
(* POST /timeline *)

\* INSERT INTO timeline: the foreign keys of the row are checked
InsertTimeline(tx0, row) ==
    LET tx == Execute(tx0) IN
    IF tx.err # NoErr THEN tx
    ELSE IF \/ row.from_account_id \notin DOMAIN tx.accounts \cup {None}
            \/ row.to_account_id \notin DOMAIN tx.accounts \cup {None}
            \/ row.payment_method_id \notin DOMAIN payment_methods \cup {None}
    THEN Raise(tx, HTTPException(500, "Failed to create operation"))
    ELSE [tx EXCEPT !.timeline = (row.id :> row) @@ tx.timeline]

\* CreateBalances with an income subtracted from the account
CreateBalances_income_debited(tx, operation, account_id) ==
    IF operation.type \in {"expense", "income"}
    THEN update_account_balance(account_id, -operation.amount, tx)
    ELSE IF operation.type = "transfer"
    THEN update_account_balance(operation.to_account_id, operation.amount,
             update_account_balance(operation.from_account_id, -operation.amount, tx))
    ELSE tx

\* The balance updates of Create, by type
CreateBalances(tx, operation, account_id) ==
    IF operation.type = "expense"
    THEN update_account_balance(account_id, -operation.amount, tx)
    ELSE IF operation.type = "income"
    THEN update_account_balance(account_id, operation.amount, tx)
    ELSE IF operation.type = "transfer"
    THEN update_account_balance(operation.to_account_id, operation.amount,
             update_account_balance(operation.from_account_id, -operation.amount, tx))
    ELSE tx

create_timeline_operation(operation, user_id) ==
    /\ LET v == validate_operation_data(operation) IN
       IF v # NoErr
       THEN /\ last' = Response("create", user_id, None, operation, v, 0, FALSE)
            /\ UNCHANGED <<accounts, payment_methods, users, timeline, timeline_seq, applied_account>>
       ELSE \E r \in (IF operation.type \in {"expense", "income"}
                      THEN get_account_for_payment_method(operation.payment_method_id)
                      ELSE {[err |-> NoErr, account_id |-> None]}) :
            IF r.err # NoErr
            THEN /\ last' = Response("create", user_id, None, operation, r.err, 0, FALSE)
                 /\ UNCHANGED <<accounts, payment_methods, users, timeline, timeline_seq,
                                applied_account>>
            ELSE /\ timeline_seq < MaxSeq
                 /\ LET new_operation_id == timeline_seq + 1
                        row == [id |-> new_operation_id,
                                date |-> operation.date,
                                type |-> operation.type,
                                category_id |-> operation.category_id,
                                category_type |-> operation.category_type,
                                from_account_id |-> operation.from_account_id,
                                to_account_id |-> operation.to_account_id,
                                amount |-> operation.amount,
                                payment_method_id |-> operation.payment_method_id,
                                user_id |-> user_id]
                    IN  \E tx \in {ReadBack(Outcome(CreateBalances(InsertTimeline(Begin, row),
                                                              operation, r.account_id)))} :
                        /\ BalanceCap(tx.accounts)
                        /\ accounts' = tx.accounts
                        /\ timeline' = tx.timeline
                        /\ timeline_seq' = new_operation_id
                        /\ applied_account' =
                               IF tx.committed
                               THEN (new_operation_id :> r.account_id) @@ applied_account
                               ELSE applied_account
                        /\ last' = Response("create", user_id,
                                            IF tx.err = NoErr THEN new_operation_id ELSE None,
                                            operation, tx.err, tx.writes, tx.committed)
                        /\ UNCHANGED <<payment_methods, users>>

----------------------------------------------------------------------------
(* PUT /timeline/{operation_id} *)

\* The reversal of the old amount and the application of the new one
UpdateBalances(tx, current_operation, old_amount, new_amount, account_id) ==
    IF current_operation.type = "expense"
    THEN update_account_balance(account_id, -new_amount,
             update_account_balance(account_id, old_amount, tx))
    ELSE IF current_operation.type = "income"
    THEN update_account_balance(account_id, new_amount,
             update_account_balance(account_id, -old_amount, tx))
    ELSE IF current_operation.type = "transfer"
    THEN update_account_balance(current_operation.to_account_id, new_amount,
             update_account_balance(current_operation.from_account_id, -new_amount,
                 update_account_balance(current_operation.to_account_id, -old_amount,
                     update_account_balance(current_operation.from_account_id, old_amount, tx))))
    ELSE tx

\* The row after UPDATE timeline SET <the fields the body gives>
UpdatedRow(row, operation_update) ==
    [row EXCEPT
        !.date = IF operation_update.date # NoneStr THEN operation_update.date ELSE @,
        !.category_id = IF operation_update.category_id # None
                        THEN operation_update.category_id ELSE @,
        !.category_type = IF operation_update.category_type # NoneStr
                          THEN operation_update.category_type ELSE @,
        !.amount = IF operation_update.amount # None THEN operation_update.amount ELSE @,
        !.payment_method_id = IF operation_update.payment_method_id # None
                              THEN operation_update.payment_method_id ELSE @]

\* The body names no column to set: no UPDATE is sent
NoUpdateFields(operation_update) ==
    /\ operation_update.date = NoneStr
    /\ operation_update.category_id = None
    /\ operation_update.category_type = NoneStr
    /\ operation_update.amount = None
    /\ operation_update.payment_method_id = None

\* UPDATE timeline: the foreign key of payment_method_id is checked
UpdateTimeline(tx0, operation_id, operation_update) ==
    LET tx == IF NoUpdateFields(operation_update) THEN tx0 ELSE Execute(tx0) IN
    IF tx.err # NoErr THEN tx
    ELSE IF operation_update.payment_method_id \notin DOMAIN payment_methods \cup {None}
    THEN Raise(tx, HTTPException(500, "Failed to update operation"))
    ELSE [tx EXCEPT !.timeline[operation_id] = UpdatedRow(@, operation_update)]

\* amount_changed without the comparison with the stored amount
amount_changed_if_given(operation_update, current_operation) ==
    operation_update.amount # None

\* The body gives an amount, and it is not the stored one
amount_changed(operation_update, current_operation) ==
    /\ operation_update.amount # None
    /\ operation_update.amount # current_operation.amount

\* AccessDenied with managers let through as on the accounts endpoints
AccessDenied_any_staff(row, user_id) ==
    row.user_id # user_id /\ users[user_id].role \notin {"owner", "manager"}

\* Only the creator and an owner may edit or delete
AccessDenied(row, user_id) == row.user_id # user_id /\ users[user_id].role # "owner"

\* The account the handler resolves for a stored expense or income when it
\* has balances to move; a transfer names its accounts itself
ResolveStored(row, needed) ==
    IF needed /\ row.type \in {"expense", "income"}
    THEN get_account_for_payment_method(row.payment_method_id)
    ELSE {[err |-> NoErr, account_id |-> None]}

\* The unit of work of update_timeline_operation on a stored row, for the
\* result r of the resolution: balances, UPDATE, commit, read-back
UpdateUnit(operation_id, operation_update, r) ==
    LET current_operation == timeline[operation_id]
        tx0 == Raise(Begin, r.err)
        tx1 == IF amount_changed(operation_update, current_operation)
               THEN UpdateBalances(tx0, current_operation, current_operation.amount,
                                   operation_update.amount, r.account_id)
               ELSE tx0
    IN  ReadBack(Outcome(UpdateTimeline(tx1, operation_id, operation_update)))

update_timeline_operation(operation_id, operation_update, user_id) ==
    IF operation_id \notin DOMAIN timeline
    THEN /\ last' = Response("update", user_id, operation_id, operation_update,
                             HTTPException(404, "Operation not found"), 0, FALSE)
         /\ UNCHANGED <<accounts, payment_methods, users, timeline, timeline_seq, applied_account>>
    ELSE IF AccessDenied(timeline[operation_id], user_id)
    THEN /\ last' = Response("update", user_id, operation_id, operation_update,
                             HTTPException(403, "Can only edit own operations"), 0, FALSE)
         /\ UNCHANGED <<accounts, payment_methods, users, timeline, timeline_seq, applied_account>>
    ELSE LET current_operation == timeline[operation_id]
             changed == amount_changed(operation_update, current_operation)
         IN  \E r \in ResolveStored(current_operation, changed) :
             \E tx \in {UpdateUnit(operation_id, operation_update, r)} :
                 /\ BalanceCap(tx.accounts)
                 /\ accounts' = tx.accounts
                 /\ timeline' = tx.timeline
                 /\ last' = Response("update", user_id, operation_id, operation_update,
                                     tx.err, tx.writes, tx.committed)
                 /\ UNCHANGED <<payment_methods, users, timeline_seq, applied_account>>

----------------------------------------------------------------------------
(* DELETE /timeline/{operation_id} *)

\* DeleteBalances with the destination of a transfer left as it is
DeleteBalances_destination_kept(tx, operation, account_id) ==
    IF operation.type = "expense"
    THEN update_account_balance(account_id, operation.amount, tx)
    ELSE IF operation.type = "income"
    THEN update_account_balance(account_id, -operation.amount, tx)
    ELSE IF operation.type = "transfer"
    THEN update_account_balance(operation.from_account_id, operation.amount, tx)
    ELSE tx

\* The reversal of the stored amount, by type
DeleteBalances(tx, operation, account_id) ==
    IF operation.type = "expense"
    THEN update_account_balance(account_id, operation.amount, tx)
    ELSE IF operation.type = "income"
    THEN update_account_balance(account_id, -operation.amount, tx)
    ELSE IF operation.type = "transfer"
    THEN update_account_balance(operation.to_account_id, -operation.amount,
             update_account_balance(operation.from_account_id, operation.amount, tx))
    ELSE tx

\* DELETE FROM timeline WHERE id = operation_id
DeleteTimeline(tx0, operation_id) ==
    LET tx == Execute(tx0) IN
    IF tx.err # NoErr THEN tx
    ELSE [tx EXCEPT !.timeline = [i \in DOMAIN tx.timeline \ {operation_id} |-> tx.timeline[i]]]

\* The unit of work of delete_timeline_operation on a stored row, for the
\* result r of the resolution: balances, DELETE, commit
DeleteUnit(operation_id, r) ==
    Outcome(DeleteTimeline(DeleteBalances(Raise(Begin, r.err), timeline[operation_id],
                                          r.account_id),
                           operation_id))

delete_timeline_operation(operation_id, user_id) ==
    IF operation_id \notin DOMAIN timeline
    THEN /\ last' = Response("delete", user_id, operation_id, NoBody,
                             HTTPException(404, "Operation not found"), 0, FALSE)
         /\ UNCHANGED <<accounts, payment_methods, users, timeline, timeline_seq, applied_account>>
    ELSE IF AccessDenied(timeline[operation_id], user_id)
    THEN /\ last' = Response("delete", user_id, operation_id, NoBody,
                             HTTPException(403, "Can only delete own operations"), 0, FALSE)
         /\ UNCHANGED <<accounts, payment_methods, users, timeline, timeline_seq, applied_account>>
    ELSE \E r \in ResolveStored(timeline[operation_id], TRUE) :
             \E tx \in {DeleteUnit(operation_id, r)} :
                 /\ BalanceCap(tx.accounts)
                 /\ accounts' = tx.accounts
                 /\ timeline' = tx.timeline
                 /\ applied_account' =
                        IF tx.err = NoErr
                        THEN [i \in DOMAIN applied_account \ {operation_id} |-> applied_account[i]]
                        ELSE applied_account
                 /\ last' = Response("delete", user_id, operation_id, NoBody,
                                     tx.err, tx.writes, tx.committed)
                 /\ UNCHANGED <<payment_methods, users, timeline_seq>>

----------------------------------------------------------------------------
(* The ledger, one request at a time *)

\* No connection fails, and no other request is in flight
Served == fault' = None /\ UNCHANGED sessions

Create == \E operation \in CreateRequests, user_id \in UserIds :
              Served /\ create_timeline_operation(operation, user_id)

Update == \E operation_id \in 1 .. MaxSeq, operation_update \in UpdateRequests,
             user_id \in UserIds :
              Served /\ update_timeline_operation(operation_id, operation_update, user_id)

Delete == \E operation_id \in 1 .. MaxSeq, user_id \in UserIds :
              Served /\ delete_timeline_operation(operation_id, user_id)

Next == Create \/ Update \/ Delete

Spec == Init /\ [][Next]_vars

----------------------------------------------------------------------------
(* The ledger with edits of date, category and amount, under every role    *)
(* the second user can have                                                *)

Roles == {"owner", "manager", "accountant", "cashier"}

InitEdit ==
    /\ accounts = (1 :> [type |-> "cash", is_active |-> TRUE,
                         initial_balance |-> MaxInitialBalance,
                         current_balance |-> MaxInitialBalance])
               @@ (2 :> [type |-> "bank", is_active |-> TRUE,
                         initial_balance |-> 0, current_balance |-> 0])
    /\ payment_methods = (1 :> [name |-> "Nalichnye", is_active |-> TRUE])
                      @@ (2 :> [name |-> "Karta", is_active |-> TRUE])
    /\ \E role \in Roles \ {"owner"} :
          users = (1 :> [role |-> "owner", is_active |-> TRUE])
               @@ (2 :> [role |-> role, is_active |-> TRUE])
    /\ timeline = << >>
    /\ timeline_seq = 0
    /\ applied_account = << >>
    /\ last = [op |-> "none", user_id |-> None, operation_id |-> None,
               request |-> [empty |-> TRUE],
               status_code |-> 200, detail |-> "OK", writes |-> 0, committed |-> FALSE,
               result |-> [empty |-> TRUE]]
    /\ fault = None
    /\ sessions = [s \in SessionIds |-> IdleSession]

\* Bodies of POST /timeline: one valid body of each type
EditCreateRequests == BaseExpenseIncome \cup BaseTransfers

\* Bodies of PUT /timeline/{id} that set date, category and amount
EditRequests ==
    [date : {NoneStr, "2025-02-02"},
     category_id : {None, 2}, category_type : {NoneStr, "expense", "income"},
     payment_method_id : {None},
     amount : {None} \cup (1 .. MaxAmount)]

CreateEdit == \E operation \in EditCreateRequests, user_id \in UserIds :
                  Served /\ create_timeline_operation(operation, user_id)

UpdateEdit == \E operation_id \in 1 .. MaxSeq, operation_update \in EditRequests,
                 user_id \in UserIds :
                  Served /\ update_timeline_operation(operation_id, operation_update, user_id)

NextEdit == CreateEdit \/ UpdateEdit \/ Delete

SpecEdit == InitEdit /\ [][NextEdit]_vars

----------------------------------------------------------------------------
(* The ledger with the administration of accounts and payment methods      *)

\* An Optional[bool] of a body
NoneBool == "None"
Bool(b) == b = "True"

\* Bodies of PUT /accounts/{id} that set type or is_active
AccountUpdates ==
    {b \in [name : {NoneStr}, type : {NoneStr} \cup AccountTypes,
            is_active : {NoneBool, "True", "False"}] :
        b.type # NoneStr \/ b.is_active # NoneBool}

\* Names PUT /payment-methods/{id} gives a payment method
PaymentMethodNames == {"Nalichnye", "Cash desk", "Karta"}

\* PUT /accounts/{account_id}
update_account(account_id, account_data, user_id) ==
    LET e == IF users[user_id].role \notin {"owner", "manager"}
             THEN HTTPException(403, "Access denied")
             ELSE IF account_id \notin DOMAIN accounts
             THEN HTTPException(404, "Account not found")
             ELSE IF account_data.type # NoneStr /\ account_data.type \notin AccountTypes
             THEN HTTPException(400, "Invalid account type")
             ELSE IF /\ account_data.name = NoneStr /\ account_data.type = NoneStr
                     /\ account_data.is_active = NoneBool
             THEN InternalServerError   \* UPDATE accounts SET  WHERE ...: refused by the server
             ELSE NoErr
    IN  /\ accounts' =
               IF e # NoErr THEN accounts
               ELSE [accounts EXCEPT
                        ![account_id].type =
                            IF account_data.type # NoneStr THEN account_data.type ELSE @,
                        ![account_id].is_active =
                            IF account_data.is_active # NoneBool
                            THEN Bool(account_data.is_active) ELSE @]
        /\ last' = Response("update_account", user_id, account_id, NoBody, e, 0, e = NoErr)
        /\ UNCHANGED <<payment_methods, users, timeline, timeline_seq, applied_account>>

\* DELETE /accounts/{account_id}: the account is deactivated
delete_account(account_id, user_id) ==
    LET e == IF users[user_id].role # "owner"
             THEN HTTPException(403, "Only owner can delete accounts")
             ELSE IF account_id \notin DOMAIN accounts
             THEN HTTPException(404, "Account not found")
             ELSE NoErr
    IN  /\ accounts' = IF e # NoErr THEN accounts
                       ELSE [accounts EXCEPT ![account_id].is_active = FALSE]
        /\ last' = Response("delete_account", user_id, account_id, NoBody, e, 0, e = NoErr)
        /\ UNCHANGED <<payment_methods, users, timeline, timeline_seq, applied_account>>

\* PUT /payment-methods/{method_id} with a name
update_payment_method(method_id, name, user_id) ==
    LET e == IF users[user_id].role \notin {"owner", "manager"}
             THEN HTTPException(403, "Access denied")
             ELSE IF method_id \notin DOMAIN payment_methods
             THEN HTTPException(404, "Payment method not found")
             ELSE NoErr
    IN  /\ payment_methods' = IF e # NoErr THEN payment_methods
                              ELSE [payment_methods EXCEPT ![method_id].name = name]
        /\ last' = Response("update_payment_method", user_id, method_id, NoBody, e, 0, e = NoErr)
        /\ UNCHANGED <<accounts, users, timeline, timeline_seq, applied_account>>

\* Bodies of POST /timeline: expenses and incomes of 1 by either payment method
AdminCreateRequests == {r \in ValidExpenseIncome : r.amount = 1}

\* Bodies of PUT /timeline/{id} that set the amount
AdminUpdateRequests ==
    [date : {NoneStr}, category_id : {None}, category_type : {NoneStr},
     payment_method_id : {None}, amount : 1 .. MaxAmount]

CreateAdmin == \E operation \in AdminCreateRequests :
                   Served /\ create_timeline_operation(operation, 1)

UpdateAdmin == \E operation_id \in 1 .. MaxSeq, operation_update \in AdminUpdateRequests :
                   Served /\ update_timeline_operation(operation_id, operation_update, 1)

DeleteAdmin == \E operation_id \in 1 .. MaxSeq :
                   Served /\ delete_timeline_operation(operation_id, 1)

UpdateAccount == \E account_id \in AccountIds \cup {MissingId}, account_data \in AccountUpdates,
                    user_id \in UserIds :
                     Served /\ update_account(account_id, account_data, user_id)

DeleteAccount == \E account_id \in AccountIds \cup {MissingId}, user_id \in UserIds :
                     Served /\ delete_account(account_id, user_id)

UpdatePaymentMethod == \E method_id \in {1, MissingId}, name \in PaymentMethodNames,
                          user_id \in UserIds :
                           Served /\ update_payment_method(method_id, name, user_id)

NextAdmin ==
    \/ CreateAdmin \/ UpdateAdmin \/ DeleteAdmin
    \/ UpdateAccount \/ DeleteAccount \/ UpdatePaymentMethod

SpecAdmin == Init /\ [][NextAdmin]_vars

----------------------------------------------------------------------------
(* The ledger with the creation, the edits and the deletion of accounts    *)

\* The accounts table with the one account the others are added to
InitAccounts ==
    /\ accounts = (1 :> [type |-> "cash", is_active |-> TRUE,
                         initial_balance |-> MaxInitialBalance,
                         current_balance |-> MaxInitialBalance])
    /\ payment_methods = (1 :> [name |-> "Nalichnye", is_active |-> TRUE])
                      @@ (2 :> [name |-> "Karta", is_active |-> TRUE])
    /\ users = (1 :> [role |-> "owner", is_active |-> TRUE])
            @@ (2 :> [role |-> "cashier", is_active |-> TRUE])
    /\ timeline = << >>
    /\ timeline_seq = 0
    /\ applied_account = << >>
    /\ last = [op |-> "none", user_id |-> None, operation_id |-> None,
               request |-> [empty |-> TRUE],
               status_code |-> 200, detail |-> "OK", writes |-> 0, committed |-> FALSE,
               result |-> [empty |-> TRUE]]
    /\ fault = None
    /\ sessions = [s \in SessionIds |-> IdleSession]

\* Bodies of POST /accounts: a type, known or not, and an initial balance,
\* which the handler takes with any sign
AccountCreates ==
    [type : {"cash", "bank", "wallet"}, initial_balance : (-1) .. MaxInitialBalance]

\* Bodies of PUT /accounts/{id}: every field is optional
AccountBodies ==
    [name : {NoneStr, "Kassa"}, type : {NoneStr, "bank"},
     is_active : {NoneBool, "True", "False"}]

\* create_account with the new account opened at a balance of zero
create_account_zero_balance(account_data, user_id) ==
    LET e == IF users[user_id].role \notin {"owner", "manager"}
             THEN HTTPException(403, "Access denied")
             ELSE IF account_data.type \notin AccountTypes
             THEN HTTPException(400, "Invalid account type")
             ELSE NoErr
        new_account_id == Cardinality(DOMAIN accounts) + 1
    IN  /\ new_account_id \in AccountIds
        /\ accounts' =
               IF e # NoErr THEN accounts
               ELSE (new_account_id :> [type |-> account_data.type, is_active |-> TRUE,
                                        initial_balance |-> account_data.initial_balance,
                                        current_balance |-> 0])
                    @@ accounts
        /\ last' = Response("create_account", user_id,
                            IF e = NoErr THEN new_account_id ELSE None,
                            account_data, e, 0, e = NoErr)
        /\ UNCHANGED <<payment_methods, users, timeline, timeline_seq, applied_account>>

\* POST /accounts.  accounts.id is a SERIAL column and no account is ever
\* removed: the new id is the number of accounts plus one.
create_account(account_data, user_id) ==
    LET e == IF users[user_id].role \notin {"owner", "manager"}
             THEN HTTPException(403, "Access denied")
             ELSE IF account_data.type \notin AccountTypes
             THEN HTTPException(400, "Invalid account type")
             ELSE NoErr
        new_account_id == Cardinality(DOMAIN accounts) + 1
    IN  /\ new_account_id \in AccountIds
        /\ accounts' =
               IF e # NoErr THEN accounts
               ELSE (new_account_id :> [type |-> account_data.type, is_active |-> TRUE,
                                        initial_balance |-> account_data.initial_balance,
                                        current_balance |-> account_data.initial_balance])
                    @@ accounts
        /\ last' = Response("create_account", user_id,
                            IF e = NoErr THEN new_account_id ELSE None,
                            account_data, e, 0, e = NoErr)
        /\ UNCHANGED <<payment_methods, users, timeline, timeline_seq, applied_account>>

CreateAccount == \E account_data \in AccountCreates, user_id \in UserIds :
                     Served /\ create_account(account_data, user_id)

EditAccount == \E account_id \in AccountIds \cup {MissingId}, account_data \in AccountBodies,
                  user_id \in UserIds :
                   Served /\ update_account(account_id, account_data, user_id)

NextAccounts ==
    \/ CreateAdmin \/ UpdateAdmin \/ DeleteAdmin
    \/ CreateAccount \/ EditAccount \/ DeleteAccount

SpecAccounts == InitAccounts /\ [][NextAccounts]_vars

----------------------------------------------------------------------------
(* The ledger with Updates whose bodies name accounts and a location       *)

\* Bodies of PUT /timeline/{id} that give from_account_id, to_account_id and
\* location_id, with or without a new amount
RetargetRequests ==
    [date : {NoneStr}, category_id : {None}, category_type : {NoneStr},
     payment_method_id : {None}, amount : {None, MaxAmount},
     from_account_id : {None, 2}, to_account_id : {None, 1}, location_id : {None, 1}]

UpdateRetarget == \E operation_id \in 1 .. MaxSeq, operation_update \in RetargetRequests,
                     user_id \in UserIds :
                      Served /\ update_timeline_operation(operation_id, operation_update, user_id)

NextRetarget == CreateEdit \/ UpdateRetarget \/ Delete

SpecRetarget == Init /\ [][NextRetarget]_vars

----------------------------------------------------------------------------
(* Updates and Deletes on a ledger that holds two rows: an income or a     *)
(* transfer into the bank account, and an expense that has spent it        *)

\* The ids of the two stored rows
StoredIds == {1, 2}

\* A row as create_timeline_operation stores it
StoredRow(id, type, payment_method_id, from, to, amount, user_id) ==
    [id |-> id, date |-> "2025-01-01", type |-> type,
     category_id |-> IF type = "transfer" THEN None ELSE 1,
     category_type |-> IF type = "transfer" THEN NoneStr ELSE type,
     from_account_id |-> from, to_account_id |-> to, amount |-> amount,
     payment_method_id |-> payment_method_id, user_id |-> user_id]

\* The state after two Creates: an income of 1 by card, or a transfer of 1
\* from the cash account, has reached the bank account, and an expense of 1
\* by card has taken it out again
InitStored ==
    /\ \E first \in {"income", "transfer"} :
          /\ accounts = (1 :> [type |-> "cash", is_active |-> TRUE,
                               initial_balance |-> MaxAmount,
                               current_balance |-> IF first = "transfer"
                                                   THEN MaxAmount - 1 ELSE MaxAmount])
                     @@ (2 :> [type |-> "bank", is_active |-> TRUE,
                               initial_balance |-> 0, current_balance |-> 0])
          /\ timeline = (1 :> IF first = "transfer"
                              THEN StoredRow(1, "transfer", None, 1, 2, 1, 1)
                              ELSE StoredRow(1, "income", 2, None, None, 1, 1))
                     @@ (2 :> StoredRow(2, "expense", 2, None, None, 1, 2))
          /\ applied_account = (1 :> IF first = "transfer" THEN None ELSE 2) @@ (2 :> 2)
    /\ payment_methods = (1 :> [name |-> "Nalichnye", is_active |-> TRUE])
                      @@ (2 :> [name |-> "Karta", is_active |-> TRUE])
    /\ users = (1 :> [role |-> "owner", is_active |-> TRUE])
            @@ (2 :> [role |-> "cashier", is_active |-> TRUE])
    /\ timeline_seq = 2
    /\ last = [op |-> "none", user_id |-> None, operation_id |-> None,
               request |-> [empty |-> TRUE],
               status_code |-> 200, detail |-> "OK", writes |-> 0, committed |-> FALSE,
               result |-> [empty |-> TRUE]]
    /\ fault = None
    /\ sessions = [s \in SessionIds |-> IdleSession]

UpdateStored == \E operation_id \in StoredIds \cup {MissingId}, operation_update \in AdminUpdateRequests,
                   user_id \in UserIds :
                    Served /\ update_timeline_operation(operation_id, operation_update, user_id)

DeleteStored == \E operation_id \in StoredIds \cup {MissingId}, user_id \in UserIds :
                    Served /\ delete_timeline_operation(operation_id, user_id)

NextStored == UpdateStored \/ DeleteStored

SpecStored == InitStored /\ [][NextStored]_vars

----------------------------------------------------------------------------
(* The ledger on connections that can fail at any of their first MaxFault  *)
(* statements                                                              *)

\* The connection of the next request fails at one of its statements, or not
Failing == fault' \in {None} \cup (1 .. MaxFault) /\ UNCHANGED sessions

CreateFailing == \E operation \in EditCreateRequests, user_id \in UserIds :
                     Failing /\ create_timeline_operation(operation, user_id)

UpdateFailing == \E operation_id \in 1 .. MaxSeq, operation_update \in AdminUpdateRequests,
                    user_id \in UserIds :
                     Failing /\ update_timeline_operation(operation_id, operation_update, user_id)

DeleteFailing == \E operation_id \in 1 .. MaxSeq, user_id \in UserIds :
                     Failing /\ delete_timeline_operation(operation_id, user_id)

NextFail == CreateFailing \/ UpdateFailing \/ DeleteFailing

SpecFail == Init /\ [][NextFail]_vars

----------------------------------------------------------------------------
(* POST /timeline served on two connections at once, one statement at a    *)
(* time.  Each connection runs one transaction at the isolation level of   *)
(* the server, READ COMMITTED: a SELECT sees what is committed when it      *)
(* runs and what its own transaction wrote; an UPDATE of a row another      *)
(* transaction has written waits until that transaction ends, and then      *)
(* writes the value it was given.                                           *)

InitConc ==
    /\ accounts = (1 :> [type |-> "cash", is_active |-> TRUE,
                         initial_balance |-> MaxInitialBalance,
                         current_balance |-> MaxInitialBalance])
               @@ (2 :> [type |-> "bank", is_active |-> TRUE,
                         initial_balance |-> MaxInitialBalance,
                         current_balance |-> MaxInitialBalance])
    /\ payment_methods = (1 :> [name |-> "Nalichnye", is_active |-> TRUE])
                      @@ (2 :> [name |-> "Karta", is_active |-> TRUE])
    /\ users = (1 :> [role |-> "owner", is_active |-> TRUE])
            @@ (2 :> [role |-> "cashier", is_active |-> TRUE])
    /\ timeline = << >>
    /\ timeline_seq = 0
    /\ applied_account = << >>
    /\ last = [op |-> "none", user_id |-> None, operation_id |-> None,
               request |-> [empty |-> TRUE],
               status_code |-> 200, detail |-> "OK", writes |-> 0, committed |-> FALSE,
               result |-> [empty |-> TRUE]]
    /\ fault = None
    /\ sessions = [s \in SessionIds |-> IdleSession]

\* Bodies of POST /timeline: expenses, incomes and transfers of 1
ConcRequests == {r \in BaseExpenseIncome \cup ValidTransfers :
                    r.amount = 1 /\ r.commission_amount = 0}

\* The balance updates of Create in the order they are made: account, change
Legs(operation, account_id) ==
    IF operation.type = "expense" THEN <<[account_id |-> account_id, amount_change |-> -operation.amount]>>
    ELSE IF operation.type = "income" THEN <<[account_id |-> account_id, amount_change |-> operation.amount]>>
    ELSE <<[account_id |-> operation.from_account_id, amount_change |-> -operation.amount],
           [account_id |-> operation.to_account_id, amount_change |-> operation.amount]>>

\* The request ends with an exception: rollback, and the response
Rejected(s, e) ==
    [sessions EXCEPT ![s] = [@ EXCEPT !.pc = "done", !.staged = << >>, !.legs = << >>,
                                      !.status_code = e.status_code, !.detail = e.detail]]

\* Another transaction has written the row of the account and has not ended
Locked(s, account_id) ==
    \E t \in SessionIds \ {s} : account_id \in DOMAIN sessions[t].staged

\* The request arrives: validation, and the account for an expense or income
Arrive(s, operation, user_id) ==
    /\ sessions[s].pc = "idle"
    /\ LET v == validate_operation_data(operation)
           arrived == [sessions EXCEPT ![s] = [@ EXCEPT !.handler = "create",
                                                        !.operation = operation,
                                                        !.user_id = user_id]]
       IN  IF v # NoErr
           THEN sessions' = Rejected(s, v)
           ELSE \E r \in (IF operation.type \in {"expense", "income"}
                          THEN get_account_for_payment_method(operation.payment_method_id)
                          ELSE {[err |-> NoErr, account_id |-> None]}) :
                IF r.err # NoErr
                THEN sessions' = Rejected(s, r.err)
                ELSE sessions' = [arrived EXCEPT ![s] =
                                     [@ EXCEPT !.pc = "insert", !.account_id = r.account_id]]
    /\ UNCHANGED <<accounts, payment_methods, users, timeline, timeline_seq,
                   applied_account, last, fault>>

\* INSERT INTO timeline ... RETURNING id: the sequence moves at once
Insert(s) ==
    /\ sessions[s].pc = "insert"
    /\ timeline_seq' = timeline_seq + 1
    /\ sessions' = [sessions EXCEPT ![s] =
                       [@ EXCEPT !.pc = "select",
                                 !.new_operation_id = timeline_seq + 1,
                                 !.legs = Legs(sessions[s].operation,
                                               sessions[s].account_id)]]
    /\ UNCHANGED <<accounts, payment_methods, users, timeline, applied_account, last, fault>>

\* update_account_balance: SELECT current_balance and the check
Select(s) ==
    /\ sessions[s].pc = "select"
    /\ LET leg == Head(sessions[s].legs)
           current_balance ==
               IF leg.account_id \in DOMAIN sessions[s].staged
               THEN sessions[s].staged[leg.account_id]
               ELSE accounts[leg.account_id].current_balance
           new_balance == current_balance + leg.amount_change
       IN  IF new_balance < 0
           THEN sessions' = Rejected(s, HTTPException(400, "Insufficient funds in account"))
           ELSE sessions' = [sessions EXCEPT ![s] =
                                [@ EXCEPT !.pc = "update", !.new_balance = new_balance]]
    /\ UNCHANGED <<accounts, payment_methods, users, timeline, timeline_seq,
                   applied_account, last, fault>>

\* update_account_balance: UPDATE accounts SET current_balance = new_balance
UpdateBalance(s) ==
    /\ sessions[s].pc = "update"
    /\ LET leg == Head(sessions[s].legs) IN
       /\ ~Locked(s, leg.account_id)
       /\ sessions' = [sessions EXCEPT ![s] =
                          [@ EXCEPT !.pc = IF Len(sessions[s].legs) > 1 THEN "select"
                                           ELSE IF sessions[s].handler = "create"
                                           THEN "commit" ELSE "row",
                                    !.legs = Tail(@),
                                    !.new_balance = None,
                                    !.staged = (leg.account_id :> sessions[s].new_balance) @@ @]]
    /\ UNCHANGED <<accounts, payment_methods, users, timeline, timeline_seq,
                   applied_account, last, fault>>

\* Two transactions each wait for a row the other has written: the server
\* ends one of them with an error, which the handler answers with 500
DeadlockAbort(s) ==
    /\ sessions[s].pc = "update"
    /\ \E t \in SessionIds \ {s} :
          /\ sessions[t].pc = "update"
          /\ Head(sessions[s].legs).account_id \in DOMAIN sessions[t].staged
          /\ Head(sessions[t].legs).account_id \in DOMAIN sessions[s].staged
    /\ sessions' = Rejected(s, StoreFailure)
    /\ UNCHANGED <<accounts, payment_methods, users, timeline, timeline_seq,
                   applied_account, last, fault>>

\* conn.commit(): the row and the balances written become the committed ones
Commit(s) ==
    /\ sessions[s].pc = "commit"
    /\ LET session == sessions[s]
           row == [id |-> session.new_operation_id,
                   date |-> session.operation.date,
                   type |-> session.operation.type,
                   category_id |-> session.operation.category_id,
                   category_type |-> session.operation.category_type,
                   from_account_id |-> session.operation.from_account_id,
                   to_account_id |-> session.operation.to_account_id,
                   amount |-> session.operation.amount,
                   payment_method_id |-> session.operation.payment_method_id,
                   user_id |-> session.user_id]
       IN  /\ accounts' = [a \in DOMAIN accounts |->
                              IF a \in DOMAIN session.staged
                              THEN [accounts[a] EXCEPT !.current_balance = session.staged[a]]
                              ELSE accounts[a]]
           /\ timeline' = (row.id :> row) @@ timeline
           /\ applied_account' = (row.id :> session.account_id) @@ applied_account
           /\ sessions' = [sessions EXCEPT ![s] =
                              [@ EXCEPT !.pc = "done", !.staged = << >>,
                                        !.status_code = 200, !.detail = "OK"]]
    /\ UNCHANGED <<payment_methods, users, timeline_seq, last, fault>>

NextConc ==
    \E s \in SessionIds :
        \/ \E operation \in ConcRequests : Arrive(s, operation, 1)
        \/ Insert(s)
        \/ Select(s)
        \/ UpdateBalance(s)
        \/ DeadlockAbort(s)
        \/ Commit(s)

SpecConc == InitConc /\ [][NextConc]_vars

----------------------------------------------------------------------------
(* The ledger with the endpoints that read it: GET /timeline/{id} and       *)
(* GET /analytics/accounts/{id}/balance                                     *)

\* The columns of table timeline
TimelineColumns ==
    {"id", "date", "type", "category_id", "category_type", "from_account_id",
     "to_account_id", "amount", "payment_method_id", "user_id"}

RECURSIVE SumOfAmounts(_, _)
SumOfAmounts(rows, ids) ==
    IF ids = {} THEN 0
    ELSE LET i == CHOOSE x \in ids : TRUE
         IN  rows[i].amount + SumOfAmounts(rows, ids \ {i})

\* SELECT COALESCE(SUM(amount), 0) as total FROM timeline
\* WHERE type IN types AND <column> = account_id.  The server refuses a query
\* that names a column the table does not have.
SelectSumAmount(types, column, account_id) ==
    IF column \notin TimelineColumns
    THEN [err |-> InternalServerError, total |-> None]
    ELSE [err |-> NoErr,
          total |-> SumOfAmounts(timeline,
                        {i \in DOMAIN timeline : /\ timeline[i].type \in types
                                                 /\ timeline[i][column] = account_id})]

\* cursor.fetchone()[0] on a RealDictCursor: the row is a dict keyed by the
\* column name "total", and 0 is not a key of it
fetchone_0(selected) == [err |-> InternalServerError, total |-> None]

\* GET /analytics/accounts/{account_id}/balance
get_account_balance(account_id, user_id) ==
    LET total_income  == fetchone_0(SelectSumAmount({"income"}, "account_id", account_id))
        total_expense == fetchone_0(SelectSumAmount({"expense"}, "account_id", account_id))
        transfer_in   == fetchone_0(SelectSumAmount({"transfer", "incasation"},
                                                    "to_account_id", account_id))
        transfer_out  == fetchone_0(SelectSumAmount({"transfer", "incasation"},
                                                    "from_account_id", account_id))
        raised == {q \in {total_income, total_expense, transfer_in, transfer_out} :
                      q.err # NoErr}
        e == IF raised # {} THEN InternalServerError ELSE NoErr
    IN  /\ last' = [Response("get_account_balance", user_id, account_id, NoBody, e, 0, FALSE)
                       EXCEPT !.result =
                           IF e # NoErr THEN NoResult
                           ELSE [balance |-> total_income.total + transfer_in.total
                                             - total_expense.total - transfer_out.total,
                                 total_income |-> total_income.total,
                                 total_expense |-> total_expense.total,
                                 transfer_in |-> transfer_in.total,
                                 transfer_out |-> transfer_out.total]]
        /\ UNCHANGED <<accounts, payment_methods, users, timeline, timeline_seq,
                       applied_account>>

\* GET /timeline/{operation_id}: the row as get_one('timeline', 'id = %s') reads it
get_timeline_operation(operation_id, user_id) ==
    /\ last' = IF operation_id \notin DOMAIN timeline
               THEN Response("get_timeline_operation", user_id, operation_id, NoBody,
                             HTTPException(404, "Operation not found"), 0, FALSE)
               ELSE [Response("get_timeline_operation", user_id, operation_id, NoBody,
                              NoErr, 0, FALSE)
                        EXCEPT !.result = timeline[operation_id]]
    /\ UNCHANGED <<accounts, payment_methods, users, timeline, timeline_seq, applied_account>>

GetAccountBalance == \E account_id \in AccountIds, user_id \in UserIds :
                         Served /\ get_account_balance(account_id, user_id)

GetTimelineOperation == \E operation_id \in 1 .. MaxSeq, user_id \in UserIds :
                            Served /\ get_timeline_operation(operation_id, user_id)

NextRead ==
    \/ CreateEdit \/ UpdateAdmin \/ Delete
    \/ GetAccountBalance \/ GetTimelineOperation

SpecRead == Init /\ [][NextRead]_vars

----------------------------------------------------------------------------
(* PUT and DELETE /timeline/{id} of one stored row served on two           *)
(* connections at once, one statement at a time.  The handler reads the    *)
(* row with get_one before it opens its transaction; the DELETE or UPDATE  *)
(* of the row is the last statement before the commit, and waits while     *)
(* another transaction has written the row and has not ended.              *)

\* The state after one Create: an expense of 1 or an income of 1 by card on
\* the bank account, or a transfer of 1 from the cash to the bank account
InitOverlap ==
    /\ \E first \in {"expense", "income", "transfer"} :
          /\ accounts = (1 :> [type |-> "cash", is_active |-> TRUE,
                               initial_balance |-> MaxInitialBalance,
                               current_balance |-> IF first = "transfer"
                                                   THEN MaxInitialBalance - 1
                                                   ELSE MaxInitialBalance])
                     @@ (2 :> [type |-> "bank", is_active |-> TRUE,
                               initial_balance |-> MaxInitialBalance,
                               current_balance |-> IF first = "expense"
                                                   THEN MaxInitialBalance - 1
                                                   ELSE MaxInitialBalance + 1])
          /\ timeline = (1 :> IF first = "transfer"
                              THEN StoredRow(1, "transfer", None, 1, 2, 1, 1)
                              ELSE StoredRow(1, first, 2, None, None, 1, 1))
          /\ applied_account = (1 :> IF first = "transfer" THEN None ELSE 2)
    /\ payment_methods = (1 :> [name |-> "Nalichnye", is_active |-> TRUE])
                      @@ (2 :> [name |-> "Karta", is_active |-> TRUE])
    /\ users = (1 :> [role |-> "owner", is_active |-> TRUE])
            @@ (2 :> [role |-> "cashier", is_active |-> TRUE])
    /\ timeline_seq = 1
    /\ last = [op |-> "none", user_id |-> None, operation_id |-> None,
               request |-> [empty |-> TRUE],
               status_code |-> 200, detail |-> "OK", writes |-> 0, committed |-> FALSE,
               result |-> [empty |-> TRUE]]
    /\ fault = None
    /\ sessions = [s \in SessionIds |-> IdleSession]

\* The balance updates of Delete in the order they are made
DeleteLegs(operation, account_id) ==
    IF operation.type = "expense"
    THEN <<[account_id |-> account_id, amount_change |-> operation.amount]>>
    ELSE IF operation.type = "income"
    THEN <<[account_id |-> account_id, amount_change |-> -operation.amount]>>
    ELSE IF operation.type = "transfer"
    THEN <<[account_id |-> operation.from_account_id, amount_change |-> operation.amount],
           [account_id |-> operation.to_account_id, amount_change |-> -operation.amount]>>
    ELSE << >>

\* The balance updates of an Update of the amount in the order they are made
UpdateLegs(current_operation, old_amount, new_amount, account_id) ==
    IF current_operation.type = "expense"
    THEN <<[account_id |-> account_id, amount_change |-> old_amount],
           [account_id |-> account_id, amount_change |-> -new_amount]>>
    ELSE IF current_operation.type = "income"
    THEN <<[account_id |-> account_id, amount_change |-> -old_amount],
           [account_id |-> account_id, amount_change |-> new_amount]>>
    ELSE IF current_operation.type = "transfer"
    THEN <<[account_id |-> current_operation.from_account_id, amount_change |-> old_amount],
           [account_id |-> current_operation.to_account_id, amount_change |-> -old_amount],
           [account_id |-> current_operation.from_account_id, amount_change |-> -new_amount],
           [account_id |-> current_operation.to_account_id, amount_change |-> new_amount]>>
    ELSE << >>

\* The session ends with the response e; what it had staged is rolled back
Ended(session, e) ==
    [session EXCEPT !.pc = "done", !.staged = << >>, !.legs = << >>, !.row_staged = FALSE,
                    !.status_code = e.status_code, !.detail = e.detail]

\* DELETE /timeline/{id} arrives: get_one of the row, the check of the
\* caller, and the account of an expense or income
ArriveDelete(s, operation_id, user_id) ==
    /\ sessions[s].pc = "idle"
    /\ LET arrived == [sessions[s] EXCEPT !.handler = "delete",
                                          !.operation_id = operation_id,
                                          !.user_id = user_id]
       IN  IF operation_id \notin DOMAIN timeline
           THEN sessions' = [sessions EXCEPT ![s] =
                                Ended(arrived, HTTPException(404, "Operation not found"))]
           ELSE IF AccessDenied(timeline[operation_id], user_id)
           THEN sessions' = [sessions EXCEPT ![s] =
                                Ended(arrived,
                                      HTTPException(403, "Can only delete own operations"))]
           ELSE \E r \in ResolveStored(timeline[operation_id], TRUE) :
                IF r.err # NoErr
                THEN sessions' = [sessions EXCEPT ![s] = Ended(arrived, r.err)]
                ELSE sessions' = [sessions EXCEPT ![s] =
                                     [arrived EXCEPT
                                         !.pc = "select",
                                         !.operation = timeline[operation_id],
                                         !.account_id = r.account_id,
                                         !.legs = DeleteLegs(timeline[operation_id],
                                                             r.account_id)]]
    /\ UNCHANGED <<accounts, payment_methods, users, timeline, timeline_seq,
                   applied_account, last, fault>>

\* PUT /timeline/{id} arrives: get_one of the row, the check of the caller,
\* and, when the amount changes, the account of an expense or income
ArriveUpdate(s, operation_id, operation_update, user_id) ==
    /\ sessions[s].pc = "idle"
    /\ LET arrived == [sessions[s] EXCEPT !.handler = "update",
                                          !.operation_id = operation_id,
                                          !.operation_update = operation_update,
                                          !.user_id = user_id]
       IN  IF operation_id \notin DOMAIN timeline
           THEN sessions' = [sessions EXCEPT ![s] =
                                Ended(arrived, HTTPException(404, "Operation not found"))]
           ELSE IF AccessDenied(timeline[operation_id], user_id)
           THEN sessions' = [sessions EXCEPT ![s] =
                                Ended(arrived,
                                      HTTPException(403, "Can only edit own operations"))]
           ELSE LET current_operation == timeline[operation_id]
                    changed == amount_changed(operation_update, current_operation)
                IN  \E r \in ResolveStored(current_operation, changed) :
                    IF r.err # NoErr
                    THEN sessions' = [sessions EXCEPT ![s] = Ended(arrived, r.err)]
                    ELSE sessions' = [sessions EXCEPT ![s] =
                                         [arrived EXCEPT
                                             !.pc = IF changed THEN "select" ELSE "row",
                                             !.operation = current_operation,
                                             !.account_id = r.account_id,
                                             !.legs =
                                                 IF changed
                                                 THEN UpdateLegs(current_operation,
                                                                 current_operation.amount,
                                                                 operation_update.amount,
                                                                 r.account_id)
                                                 ELSE << >>]]
    /\ UNCHANGED <<accounts, payment_methods, users, timeline, timeline_seq,
                   applied_account, last, fault>>

\* Another transaction has written the row and has not ended
RowLocked(s, operation_id) ==
    \E t \in SessionIds \ {s} :
        sessions[t].row_staged /\ sessions[t].operation_id = operation_id

\* DELETE FROM timeline WHERE id = ..., or UPDATE timeline SET ... WHERE id =
\* ... when the body names a column
WriteRow(s) ==
    /\ sessions[s].pc = "row"
    /\ ~RowLocked(s, sessions[s].operation_id)
    /\ LET session == sessions[s] IN
       IF session.handler = "update" /\ NoUpdateFields(session.operation_update)
       THEN sessions' = [sessions EXCEPT ![s] = [@ EXCEPT !.pc = "commit_row"]]
       ELSE IF /\ session.handler = "update"
               /\ session.operation_update.payment_method_id
                      \notin DOMAIN payment_methods \cup {None}
       THEN sessions' = [sessions EXCEPT ![s] =
                            Ended(session, HTTPException(500, "Failed to update operation"))]
       ELSE sessions' = [sessions EXCEPT ![s] =
                            [@ EXCEPT !.pc = "commit_row",
                                      !.row_staged = session.operation_id \in DOMAIN timeline]]
    /\ UNCHANGED <<accounts, payment_methods, users, timeline, timeline_seq,
                   applied_account, last, fault>>

\* conn.commit() of an Update or Delete: the balances written and the write
\* of the row become the committed ones.  A row that was gone when the
\* statement ran was not written.
CommitRow(s) ==
    /\ sessions[s].pc = "commit_row"
    /\ LET session == sessions[s]
           operation_id == session.operation_id
       IN  /\ accounts' = [a \in DOMAIN accounts |->
                              IF a \in DOMAIN session.staged
                              THEN [accounts[a] EXCEPT !.current_balance = session.staged[a]]
                              ELSE accounts[a]]
           /\ timeline' =
                  IF ~session.row_staged THEN timeline
                  ELSE IF session.handler = "delete"
                  THEN [i \in DOMAIN timeline \ {operation_id} |-> timeline[i]]
                  ELSE [timeline EXCEPT
                           ![operation_id] = UpdatedRow(@, session.operation_update)]
           /\ applied_account' =
                  IF session.row_staged /\ session.handler = "delete"
                  THEN [i \in DOMAIN applied_account \ {operation_id} |-> applied_account[i]]
                  ELSE applied_account
           /\ sessions' = [sessions EXCEPT ![s] =
                              IF session.handler = "delete"
                              THEN Ended(session, NoErr)
                              ELSE [session EXCEPT !.pc = "read_back", !.staged = << >>,
                                                   !.row_staged = FALSE]]
    /\ UNCHANGED <<payment_methods, users, timeline_seq, last, fault>>

\* The read-back of an Update after its commit: dict(cursor.fetchone()) raises
\* when the row is gone
ReadBackRow(s) ==
    /\ sessions[s].pc = "read_back"
    /\ sessions' = [sessions EXCEPT ![s] =
                       Ended(sessions[s],
                             IF sessions[s].operation_id \in DOMAIN timeline THEN NoErr
                             ELSE HTTPException(500, "Failed to update operation"))]
    /\ UNCHANGED <<accounts, payment_methods, users, timeline, timeline_seq,
                   applied_account, last, fault>>

NextOverlap ==
    \E s \in SessionIds :
        \/ \E user_id \in UserIds : ArriveDelete(s, 1, user_id)
        \/ \E operation_update \in AdminUpdateRequests : ArriveUpdate(s, 1, operation_update, 1)
        \/ Select(s)
        \/ UpdateBalance(s)
        \/ WriteRow(s)
        \/ CommitRow(s)
        \/ ReadBackRow(s)

SpecOverlap == InitOverlap /\ [][NextOverlap]_vars

TypeOK ==
    /\ DOMAIN accounts \subseteq AccountIds
    /\ DOMAIN timeline \subseteq 1 .. timeline_seq

----------------------------------------------------------------------------
(* Properties *)

InsufficientFunds == "Insufficient funds in account"

Balance(a) == accounts[a].current_balance

\* The signed effect of a stored row on account a.  An expense or income row
\* names no account; its effect is on the account Create resolved for it.
Effect(row, account_id, a) ==
    IF row.type = "expense" THEN (IF account_id = a THEN -row.amount ELSE 0)
    ELSE IF row.type = "income" THEN (IF account_id = a THEN row.amount ELSE 0)
    ELSE IF row.type \in {"transfer", "incasation"}
    THEN (IF row.from_account_id = a THEN -row.amount ELSE 0)
         + (IF row.to_account_id = a THEN row.amount ELSE 0)
    ELSE 0

RECURSIVE SumEffects(_, _)
SumEffects(ids, a) ==
    IF ids = {} THEN 0
    ELSE LET i == CHOOSE x \in ids : TRUE
         IN  Effect(timeline[i], applied_account[i], a) + SumEffects(ids \ {i}, a)

\* C1: every account's current_balance equals its initial_balance plus the
\* sum of the signed effects of the rows stored in the timeline.
C1_BalanceReplay ==
    \A a \in DOMAIN accounts :
        Balance(a) = accounts[a].initial_balance + SumEffects(DOMAIN timeline, a)

\* C2: no account's current_balance is ever below zero.
C2_NoNegativeBalance == \A a \in DOMAIN accounts : Balance(a) >= 0

\* C2 witness: a Create that would have taken a balance below zero was refused
C2_Witness ==
    /\ last.op = "create"
    /\ last.status_code = 400
    /\ last.detail = InsufficientFunds
    /\ \E a \in DOMAIN accounts : Balance(a) = 0

\* C3: a request rejected for insufficient funds leaves every account and
\* every timeline row as it was before the call.
C3_AllOrNothing ==
    [][last'.detail = InsufficientFunds => (accounts' = accounts /\ timeline' = timeline)]_vars

\* C3 witness: an Update was rejected for insufficient funds after its
\* reversal step had been staged
C3_Witness ==
    /\ last.op = "update"
    /\ last.detail = InsufficientFunds
    /\ last.writes >= 1

\* accounts with the balance of account a changed by d
Moved(accts, a, d) == [accts EXCEPT ![a].current_balance = @ + d]

\* C4: a successful Delete of a stored row changes each account by the exact
\* negation of the row's effect, changes no other account, and removes the row.
C4_DeleteReversal ==
    [][(last'.op = "delete" /\ last'.status_code = 200
        /\ last'.operation_id \in DOMAIN timeline)
        => LET operation_id == last'.operation_id
           IN  /\ operation_id \notin DOMAIN timeline'
               /\ \A a \in DOMAIN accounts :
                     accounts'[a].current_balance =
                         Balance(a) - Effect(timeline[operation_id],
                                             applied_account[operation_id], a)]_vars

\* C5: a successful Update that changes the amount of a row to b changes each
\* account by the negated old effect plus the effect of the row with amount b,
\* and stores b.
C5_UpdateAmountExact ==
    [][(/\ last'.op = "update"
        /\ last'.status_code = 200
        /\ last'.request.amount # None
        /\ last'.request.amount # timeline[last'.operation_id].amount)
        => LET operation_id == last'.operation_id
               b == last'.request.amount
           IN  /\ timeline'[operation_id].amount = b
               /\ \A a \in DOMAIN accounts :
                     accounts'[a].current_balance =
                         Balance(a)
                         - Effect(timeline[operation_id], applied_account[operation_id], a)
                         + Effect([timeline[operation_id] EXCEPT !.amount = b],
                                  applied_account[operation_id], a)]_vars

\* C6: a successful Create of an expense takes amount from exactly one
\* account, the active account resolved for it; of an income, adds amount to
\* exactly one such account; of a transfer, takes amount from the source and
\* adds it to the destination.  No other account changes, and exactly one row
\* is added to the timeline, attributed to the caller.
C6_CreateEffect ==
    [][(last'.op = "create" /\ last'.status_code = 200)
        => LET operation == last'.request
               id == last'.operation_id
               a  == applied_account'[id]
           IN  /\ id \notin DOMAIN timeline
               /\ DOMAIN timeline' = DOMAIN timeline \cup {id}
               /\ \A i \in DOMAIN timeline : timeline'[i] = timeline[i]
               /\ timeline'[id].user_id = last'.user_id
               /\ timeline'[id].type = operation.type
               /\ timeline'[id].amount = operation.amount
               /\ operation.type \in {"expense", "income", "transfer"}
               /\ operation.type = "expense"
                    => /\ a \in DOMAIN accounts /\ accounts[a].is_active
                       /\ accounts' = Moved(accounts, a, -operation.amount)
               /\ operation.type = "income"
                    => /\ a \in DOMAIN accounts /\ accounts[a].is_active
                       /\ accounts' = Moved(accounts, a, operation.amount)
               /\ operation.type = "transfer"
                    => accounts' = Moved(Moved(accounts, operation.from_account_id,
                                               -operation.amount),
                                         operation.to_account_id, operation.amount)]_vars

\* C6 witness: an expense has been created
C6_Witness ==
    /\ last.op = "create"
    /\ last.status_code = 200
    /\ last.request.type = "expense"
    /\ last.operation_id \in DOMAIN timeline

\* A transfer body that passes validation and names two stored accounts
TransferOfStoredAccounts(operation) ==
    /\ operation.type = "transfer"
    /\ operation.amount > 0
    /\ operation.from_account_id \in DOMAIN accounts
    /\ operation.to_account_id \in DOMAIN accounts
    /\ operation.from_account_id # operation.to_account_id

\* C7: a transfer of amount a with commission c takes a + c from the source
\* and adds a to the destination, and is rejected for insufficient funds when
\* the source holds less than a + c.
C7_TransferCommission ==
    [][(last'.op = "create" /\ TransferOfStoredAccounts(last'.request))
        => LET operation == last'.request IN
           IF Balance(operation.from_account_id)
                  < operation.amount + operation.commission_amount
           THEN last'.detail = InsufficientFunds /\ accounts' = accounts
           ELSE /\ last'.status_code = 200
                /\ accounts' = Moved(Moved(accounts, operation.from_account_id,
                                            -(operation.amount + operation.commission_amount)),
                                      operation.to_account_id, operation.amount)]_vars

\* C8: a Create of type incasation between two distinct stored accounts, with
\* a positive amount the source can pay, is accepted, takes amount from the
\* source, adds it to the destination and stores the row.
C8_IncasationAccepted ==
    [][(/\ last'.op = "create"
        /\ last'.request.type = "incasation"
        /\ last'.request.from_account_id \in DOMAIN accounts
        /\ last'.request.to_account_id \in DOMAIN accounts
        /\ last'.request.from_account_id # last'.request.to_account_id
        /\ last'.request.amount > 0
        /\ Balance(last'.request.from_account_id) >= last'.request.amount)
        => LET operation == last'.request
           IN  /\ last'.status_code = 200
               /\ accounts' = Moved(Moved(accounts, operation.from_account_id,
                                           -operation.amount),
                                     operation.to_account_id, operation.amount)
               /\ \E i \in DOMAIN timeline' \ DOMAIN timeline :
                     timeline'[i].type = "incasation"]_vars

\* The bodies validation is to refuse: amount not positive, category missing
\* or of the wrong type, transfer without two distinct accounts
InvalidBody(operation) ==
    \/ operation.amount <= 0
    \/ /\ operation.type \in {"expense", "income"}
       /\ (operation.category_id = None \/ operation.category_type # operation.type)
    \/ /\ operation.type = "transfer"
       /\ \/ operation.from_account_id = None
          \/ operation.to_account_id = None
          \/ operation.from_account_id = operation.to_account_id

\* C9: a Create with an invalid body is rejected before anything is staged:
\* no balance write, no INSERT (the sequence of timeline.id has not moved),
\* and accounts and timeline are unchanged.
C9_ValidationFirst ==
    [][(last'.op = "create" /\ InvalidBody(last'.request))
        => /\ last'.status_code = 400
           /\ last'.writes = 0
           /\ timeline_seq' = timeline_seq
           /\ accounts' = accounts
           /\ timeline' = timeline]_vars

\* C9 witness: a Create with a non-positive amount was refused while the
\* timeline held a row
C9_Witness ==
    /\ last.op = "create"
    /\ last.request.amount <= 0
    /\ last.status_code = 400
    /\ timeline # << >>

\* C10: every stored row has amount > 0.
C10_AmountsPositive == \A i \in DOMAIN timeline : timeline[i].amount > 0

\* An expense or income row whose payment method resolves to an account
Resolvable(row) ==
    \E r \in get_account_for_payment_method(row.payment_method_id) : r.err = NoErr

\* C11: every stored expense has category_type expense and a payment method
\* that resolves to an account, every stored income has category_type income,
\* and every stored transfer has two different accounts.
C11_TypeFieldConsistency ==
    \A i \in DOMAIN timeline :
        LET row == timeline[i] IN
        /\ row.type = "expense" => (row.category_type = "expense" /\ Resolvable(row))
        /\ row.type = "income" => row.category_type = "income"
        /\ row.type = "transfer" => row.from_account_id # row.to_account_id

\* The caller may edit or delete the row: its creator, or an owner
MayEdit(row, user_id) == row.user_id = user_id \/ users[user_id].role = "owner"

\* C12: an Update or Delete of a stored row succeeds only for its creator or
\* an owner; for any other caller it is answered 403 and no balance and no
\* timeline row changes.
C12_Authorization ==
    [][(last'.op \in {"update", "delete"} /\ last'.operation_id \in DOMAIN timeline)
        => LET row == timeline[last'.operation_id] IN
           /\ last'.status_code = 200 => MayEdit(row, last'.user_id)
           /\ ~MayEdit(row, last'.user_id)
                => /\ last'.status_code = 403
                   /\ accounts' = accounts
                   /\ timeline' = timeline]_vars

\* C12 witness: a manager who sent a new amount for the owner's row was refused
C12_Witness ==
    /\ last.op = "update"
    /\ last.status_code = 403
    /\ last.request.amount # None
    /\ users[last.user_id].role = "manager"
    /\ last.operation_id \in DOMAIN timeline
    /\ users[timeline[last.operation_id].user_id].role = "owner"

\* C13: an Update that gives no payment method, and no amount or the stored
\* amount, stages no balance write and leaves every current_balance unchanged.
C13_NonAmountFrame ==
    [][(/\ last'.op = "update"
        /\ last'.operation_id \in DOMAIN timeline
        /\ last'.request.payment_method_id = None
        /\ \/ last'.request.amount = None
           \/ last'.request.amount = timeline[last'.operation_id].amount)
        => /\ last'.writes = 0
           /\ \A a \in DOMAIN accounts : accounts'[a].current_balance = Balance(a)]_vars

\* C13 witness: an Update that sent a new date and category with the stored
\* amount was applied
C13_Witness ==
    /\ last.op = "update"
    /\ last.status_code = 200
    /\ last.request.date # NoneStr
    /\ last.request.category_id # None
    /\ last.operation_id \in DOMAIN timeline
    /\ timeline[last.operation_id].date = last.request.date
    /\ timeline[last.operation_id].category_id = last.request.category_id
    /\ timeline[last.operation_id].amount = last.request.amount

\* The accounts get_account_for_payment_method can return for a payment method
ResolvedAccounts(payment_method_id) ==
    {r.account_id : r \in {x \in get_account_for_payment_method(payment_method_id) :
                                x.err = NoErr}}

\* C14: a successful Update that gives an expense or income a payment method
\* resolving to another account than the one the row was applied to takes the
\* old effect back from that account and applies the effect of the updated
\* row to the account resolved from the new payment method.
C14_PaymentMethodChange ==
    [][(/\ last'.op = "update"
        /\ last'.status_code = 200
        /\ last'.operation_id \in DOMAIN timeline
        /\ timeline[last'.operation_id].type \in {"expense", "income"}
        /\ last'.request.payment_method_id # None
        /\ ResolvedAccounts(last'.request.payment_method_id) # {}
        /\ applied_account[last'.operation_id]
               \notin ResolvedAccounts(last'.request.payment_method_id))
        => LET operation_id == last'.operation_id IN
           \E account_id \in ResolvedAccounts(last'.request.payment_method_id) :
               \A a \in DOMAIN accounts :
                   accounts'[a].current_balance =
                       Balance(a)
                       - Effect(timeline[operation_id], applied_account[operation_id], a)
                       + Effect(timeline'[operation_id], account_id, a)]_vars

\* C15: a successful Update or Delete of an expense or income whose payment
\* method no longer resolves to the account its Create used changes the
\* balance of no account other than that one.
C15_ReversalOnOriginalAccount ==
    [][(/\ last'.op \in {"update", "delete"}
        /\ last'.status_code = 200
        /\ last'.operation_id \in DOMAIN timeline
        /\ timeline[last'.operation_id].type \in {"expense", "income"}
        /\ applied_account[last'.operation_id]
               \notin ResolvedAccounts(timeline[last'.operation_id].payment_method_id))
        => \A a \in DOMAIN accounts :
               accounts'[a].current_balance # Balance(a)
                   => a = applied_account[last'.operation_id]]_vars

\* The active accounts of a type, or every active account when there is none
ActiveOfTypeOrAny(account_type) ==
    LET typed == {a \in DOMAIN accounts : accounts[a].is_active
                                           /\ accounts[a].type = account_type}
    IN  IF typed # {} THEN typed ELSE {a \in DOMAIN accounts : accounts[a].is_active}

\* A Create of a valid expense or income of a stored payment method is
\* answered 404 when Expected is empty; otherwise it moves the amount on an
\* account of Expected and on no other, or is refused for insufficient funds
\* on an account of Expected.
CreateResolvesTo(Expected, operation) ==
    IF Expected = {}
    THEN last'.status_code = 404 /\ accounts' = accounts /\ timeline' = timeline
    ELSE \/ /\ last'.status_code = 200
            /\ applied_account'[last'.operation_id] \in Expected
            /\ accounts' = Moved(accounts, applied_account'[last'.operation_id],
                                 IF operation.type = "expense"
                                 THEN -operation.amount ELSE operation.amount)
         \/ /\ last'.detail = InsufficientFunds
            /\ operation.type = "expense"
            /\ \E a \in Expected : Balance(a) < operation.amount
            /\ accounts' = accounts

\* A Create of a valid expense or income of a stored payment method
ResolvingCreate ==
    /\ last'.op = "create"
    /\ last'.request.type \in {"expense", "income"}
    /\ last'.request.category_type = last'.request.type
    /\ last'.request.category_id # None
    /\ last'.request.amount > 0
    /\ last'.request.payment_method_id \in DOMAIN payment_methods

\* C19 as stated: the account is an active cash account when the name of the
\* payment method contains "cash" or "nalichn", an active bank account
\* otherwise, any active account when there is none of that type, and the
\* Create is answered 404 when no account is active.
C19_ResolutionBySubstring ==
    [][ResolvingCreate
        => LET name == payment_methods[last'.request.payment_method_id].name
           IN  CreateResolvesTo(ActiveOfTypeOrAny(IF ContainsCashWord(Lower(name))
                                                  THEN "cash" ELSE "bank"),
                                last'.request)]_vars

\* C19 as amended: the account is an active cash account when the lower-cased
\* name of the payment method is exactly "cash" or "nalichnye", an active bank
\* account otherwise, any active account when there is none of that type, and
\* the Create is answered 404 when no account is active.
C19_ResolutionByExactName ==
    [][ResolvingCreate
        => LET name == payment_methods[last'.request.payment_method_id].name
           IN  CreateResolvesTo(ActiveOfTypeOrAny(IF Lower(name) \in {"nalichnye", "cash"}
                                                  THEN "cash" ELSE "bank"),
                                last'.request)]_vars

\* C19 witness: an income by a payment method named "Cash desk" went to a bank
\* account while a cash account was active
C19_Witness ==
    /\ last.op = "create"
    /\ last.status_code = 200
    /\ last.request.type = "income"
    /\ payment_methods[last.request.payment_method_id].name = "Cash desk"
    /\ last.operation_id \in DOMAIN applied_account
    /\ accounts[applied_account[last.operation_id]].type = "bank"
    /\ \E a \in DOMAIN accounts : accounts[a].is_active /\ accounts[a].type = "cash"

\* C20: a Create of a valid expense or income that names an active account,
\* which for an expense holds the amount, is accepted and moves the amount on
\* exactly that account, with or without a payment method.
C20_ExplicitAccount ==
    [][(/\ last'.op = "create"
        /\ last'.request.type \in {"expense", "income"}
        /\ last'.request.category_type = last'.request.type
        /\ last'.request.category_id # None
        /\ last'.request.amount > 0
        /\ last'.request.account_id \in DOMAIN accounts
        /\ accounts[last'.request.account_id].is_active
        /\ last'.request.type = "expense"
              => Balance(last'.request.account_id) >= last'.request.amount)
        => /\ last'.status_code = 200
           /\ accounts' = Moved(accounts, last'.request.account_id,
                                IF last'.request.type = "expense"
                                THEN -last'.request.amount ELSE last'.request.amount)]_vars

\* C18: a request answered 500 for a failure before its commit returned
\* leaves every account and every timeline row as it was before the call, and
\* a request whose connection failed is answered 500.
C18_RollbackOnStoreFailure ==
    [][/\ (last'.status_code = 500 /\ ~last'.committed)
            => (accounts' = accounts /\ timeline' = timeline)
       /\ last'.detail = StoreFailure.detail => last'.status_code = 500]_vars

\* C18 witness: the connection of a transfer failed after the row was
\* inserted and the source was debited
C18_Witness ==
    /\ last.op = "create"
    /\ last.request.type = "transfer"
    /\ last.detail = StoreFailure.detail
    /\ last.writes = 1
    /\ timeline = << >>
    /\ timeline_seq = 1

\* C16: two expenses served at once against one account are not both
\* committed unless the account held the sum of their amounts, and no
\* committed balance is below zero.
C16_NoDoubleSpend ==
    /\ \A a \in DOMAIN accounts : Balance(a) >= 0
    /\ \A s \in SessionIds, t \in SessionIds :
          (/\ s # t
           /\ sessions[s].status_code = 200 /\ sessions[t].status_code = 200
           /\ sessions[s].operation.type = "expense" /\ sessions[t].operation.type = "expense"
           /\ sessions[s].account_id = sessions[t].account_id)
          => accounts[sessions[s].account_id].initial_balance
                 >= sessions[s].operation.amount + sessions[t].operation.amount

\* C17: once the requests served at once have ended, every current_balance is
\* the initial balance plus the effects of the committed rows, which is what
\* either serial order of the committed requests gives.
C17_NoLostUpdate ==
    (\A s \in SessionIds : sessions[s].pc = "done")
        => \A a \in DOMAIN accounts :
               Balance(a) = accounts[a].initial_balance + SumEffects(DOMAIN timeline, a)

\* A body that passes validation and names an account or a payment method
\* that is not stored or not active
DanglingReference(operation) ==
    /\ validate_operation_data(operation) = NoErr
    /\ \/ /\ operation.type = "transfer"
          /\ \E a \in {operation.from_account_id, operation.to_account_id} :
                a \notin DOMAIN accounts \/ ~accounts[a].is_active
       \/ /\ operation.type \in {"expense", "income"}
          /\ \/ operation.payment_method_id \notin DOMAIN payment_methods
             \/ ~payment_methods[operation.payment_method_id].is_active

\* C21: a Create whose body passes validation and names an account or a
\* payment method that is not stored or not active is answered 404 and changes
\* no balance and no timeline row.  (The category tables are not in the model:
\* no timeline handler reads them.)
C21_NotFoundForDanglingReference ==
    [][(last'.op = "create" /\ DanglingReference(last'.request))
        => /\ last'.status_code = 404
           /\ accounts' = accounts
           /\ timeline' = timeline]_vars

\* C29: a Create, Update or Delete that is answered with an error leaves every
\* account and every timeline row as it was before the call, whichever
\* statement the error came from, the read-back after the commit included.
C29_ErrorImpliesNoEffect ==
    [][(last'.op \in {"create", "update", "delete"} /\ last'.status_code # 200)
        => (accounts' = accounts /\ timeline' = timeline)]_vars

\* The rows of the given types that Create applied to account a
AppliedTo(types, a) ==
    {i \in DOMAIN timeline : timeline[i].type \in types /\ applied_account[i] = a}

\* C22: get_account_balance(a) changes no state and returns the totals of the
\* stored incomes and expenses applied to a and of the transfers and
\* incasations into and out of a, with balance = total_income + transfer_in
\* - total_expense - transfer_out, and this balance equals current_balance
\* - initial_balance of a.
C22_ReconciliationView ==
    [][last'.op = "get_account_balance"
        => LET a == last'.operation_id
               view == last'.result
           IN  /\ last'.status_code = 200
               /\ accounts' = accounts /\ timeline' = timeline
               /\ view.total_income = SumOfAmounts(timeline, AppliedTo({"income"}, a))
               /\ view.total_expense = SumOfAmounts(timeline, AppliedTo({"expense"}, a))
               /\ view.transfer_in =
                      SumOfAmounts(timeline,
                          {i \in DOMAIN timeline : /\ timeline[i].type \in {"transfer", "incasation"}
                                                   /\ timeline[i].to_account_id = a})
               /\ view.transfer_out =
                      SumOfAmounts(timeline,
                          {i \in DOMAIN timeline : /\ timeline[i].type \in {"transfer", "incasation"}
                                                   /\ timeline[i].from_account_id = a})
               /\ view.balance = view.total_income + view.transfer_in
                                  - view.total_expense - view.transfer_out
               /\ view.balance = Balance(a) - accounts[a].initial_balance]_vars

\* The name a joined field shows for a row of a table
NameOf(table, id) == <<table, id>>

\* C24: right after a successful Create, GET /timeline/{id} of the returned id
\* yields a record with the submitted type, date, amount and references, and
\* with the names of the category, of the account the amount was applied to
\* and of the caller of the Create.
C24_ReadAfterWrite ==
    [][(/\ last.op = "create" /\ last.status_code = 200
        /\ last'.op = "get_timeline_operation"
        /\ last'.operation_id = last.operation_id)
        => LET operation == last.request
               record == last'.result
           IN  /\ last'.status_code = 200
               /\ record.type = operation.type
               /\ record.date = operation.date
               /\ record.amount = operation.amount
               /\ record.category_id = operation.category_id
               /\ record.payment_method_id = operation.payment_method_id
               /\ record.from_account_id = operation.from_account_id
               /\ record.to_account_id = operation.to_account_id
               /\ {"category_name", "account_name", "created_by_name"} \subseteq DOMAIN record
               /\ record.created_by_name = NameOf("users", last.user_id)
               /\ operation.type \in {"expense", "income"}
                     => /\ record.category_name = NameOf(operation.category_type,
                                                         operation.category_id)
                        /\ record.account_name =
                               NameOf("accounts", applied_account[last.operation_id])]_vars

\* C23: create_account adds one account whose current_balance is the
\* initial_balance of the body and changes no other account; update_account
\* and delete_account keep every account row and leave every current_balance
\* and initial_balance unchanged; a successful delete_account leaves the
\* account stored with is_active false; none of the three changes a timeline
\* row.
C23_AdminMovesNoMoney ==
    [][/\ last'.op \in {"create_account", "update_account", "delete_account"}
            => timeline' = timeline
       /\ (last'.op = "create_account" /\ last'.status_code = 200)
            => LET id == last'.operation_id IN
               /\ DOMAIN accounts' = DOMAIN accounts \cup {id}
               /\ id \notin DOMAIN accounts
               /\ accounts'[id].initial_balance = last'.request.initial_balance
               /\ accounts'[id].current_balance = accounts'[id].initial_balance
               /\ \A a \in DOMAIN accounts : accounts'[a] = accounts[a]
       /\ (last'.op = "create_account" /\ last'.status_code # 200) => accounts' = accounts
       /\ last'.op \in {"update_account", "delete_account"}
            => /\ DOMAIN accounts' = DOMAIN accounts
               /\ \A a \in DOMAIN accounts :
                     /\ accounts'[a].current_balance = accounts[a].current_balance
                     /\ accounts'[a].initial_balance = accounts[a].initial_balance
       /\ (last'.op = "delete_account" /\ last'.status_code = 200)
            => /\ last'.operation_id \in DOMAIN accounts'
               /\ ~accounts'[last'.operation_id].is_active]_vars

\* C23 witness: an account opened by create_account with a balance, on which
\* a stored income was then booked, has been retyped or deactivated
C23_Witness ==
    /\ last.op \in {"update_account", "delete_account"}
    /\ last.status_code = 200
    /\ last.operation_id = 2
    /\ accounts[2].initial_balance = MaxInitialBalance
    /\ accounts[2].current_balance > accounts[2].initial_balance
    /\ timeline # << >>

\* The body of an Update that sets the amount to zero and nothing else
AmountZero ==
    [date |-> NoneStr, category_id |-> None, category_type |-> NoneStr,
     payment_method_id |-> None, amount |-> 0]

\* The current_balance of every account of a table
BalancesOf(accts) == [a \in DOMAIN accts |-> accts[a].current_balance]

\* What a unit of work leaves to compare: the balances, and whether it was
\* rejected for insufficient funds
BalanceOutcome(tx) ==
    [balances |-> BalancesOf(tx.accounts),
     insufficient |-> tx.err.detail = InsufficientFunds]

\* C25: in every state and for every stored row T, the outcomes a Delete of T
\* can have (the balances it leaves, and whether it is rejected for
\* insufficient funds) are the outcomes an Update of T to amount 0 can have.
C25_DeleteRefinesUpdateToZero ==
    \A operation_id \in DOMAIN timeline :
        LET row == timeline[operation_id] IN
        {BalanceOutcome(DeleteUnit(operation_id, r)) : r \in ResolveStored(row, TRUE)}
            = {BalanceOutcome(UpdateUnit(operation_id, AmountZero, r)) :
                  r \in ResolveStored(row, amount_changed(AmountZero, row))}

\* C25 witness: a Delete of a stored income was rejected for insufficient
\* funds, and the row is still stored
C25_Witness ==
    /\ last.op = "delete"
    /\ last.detail = InsufficientFunds
    /\ last.operation_id \in DOMAIN timeline
    /\ timeline[last.operation_id].type = "income"

\* The balance of account a after the effect of the stored row is taken off
\* and the effect of the row with the new amount is put on
NetBalance(row, account_id, new_amount, a) ==
    Balance(a) - Effect(row, account_id, a)
               + Effect([row EXCEPT !.amount = new_amount], account_id, a)

\* C26: an Update of the amount of a stored row, by a caller who may edit it,
\* that leaves no account below zero once the old effect is taken off and the
\* new one put on, succeeds, even when taking the old effect off alone would
\* take an account below zero.
C26_RejectedOnlyOnNetNegative ==
    [][(/\ last'.op = "update"
        /\ last'.operation_id \in DOMAIN timeline
        /\ MayEdit(timeline[last'.operation_id], last'.user_id)
        /\ last'.request.amount # None
        /\ last'.request.amount > 0
        /\ \A a \in DOMAIN accounts :
              NetBalance(timeline[last'.operation_id], applied_account[last'.operation_id],
                         last'.request.amount, a) >= 0)
        => last'.status_code = 200]_vars

\* The accounts a stored row has moved money on: the two accounts of a
\* transfer, the account Create resolved for an expense or income
ReferencedAccounts(operation_id) ==
    IF timeline[operation_id].type \in {"transfer", "incasation"}
    THEN {timeline[operation_id].from_account_id, timeline[operation_id].to_account_id}
    ELSE {applied_account[operation_id]}

\* C30: a successful Update, whatever its body gives (from_account_id,
\* to_account_id and location_id included), leaves type, from_account_id,
\* to_account_id and user_id of the stored row unchanged and changes the
\* balance of no account other than those the row has moved money on.
C30_UpdateNeverRetargets ==
    [][(/\ last'.op = "update"
        /\ last'.status_code = 200
        /\ last'.operation_id \in DOMAIN timeline)
        => LET operation_id == last'.operation_id IN
           /\ operation_id \in DOMAIN timeline'
           /\ timeline'[operation_id].type = timeline[operation_id].type
           /\ timeline'[operation_id].from_account_id = timeline[operation_id].from_account_id
           /\ timeline'[operation_id].to_account_id = timeline[operation_id].to_account_id
           /\ timeline'[operation_id].user_id = timeline[operation_id].user_id
           /\ \A a \in DOMAIN accounts :
                 accounts'[a].current_balance # Balance(a)
                     => a \in ReferencedAccounts(operation_id)]_vars

\* The session served a Delete, or an Update that changed the amount it read
Reverses(session) ==
    \/ session.handler = "delete"
    \/ /\ session.handler = "update"
       /\ session.operation # [empty |-> TRUE]
       /\ amount_changed(session.operation_update, session.operation)

\* C27: when a Delete and another Delete or amount-changing Update of the
\* same row are served at once and the row ends deleted, the effect of the
\* row has been taken off its accounts exactly once: every current_balance is
\* the balance without the row, whatever the interleaving.
C27_ReversedAtMostOnce ==
    (/\ \A s \in SessionIds : sessions[s].pc = "done" /\ Reverses(sessions[s])
     /\ \E s \in SessionIds : sessions[s].handler = "delete" /\ sessions[s].status_code = 200)
        => /\ timeline = << >>
           /\ \A a \in DOMAIN accounts : Balance(a) = accounts[a].initial_balance

\* C28: when two Updates of the amount of the same row are served at once and
\* both are committed, every current_balance is the balance the stored amount
\* implies: initial_balance plus the effect of the row as it is stored.
C28_NoDriftOnOverlappingUpdates ==
    (\A s \in SessionIds :
        /\ sessions[s].pc = "done"
        /\ sessions[s].handler = "update"
        /\ sessions[s].status_code = 200
        /\ amount_changed(sessions[s].operation_update, sessions[s].operation))
        => \A a \in DOMAIN accounts :
               Balance(a) = accounts[a].initial_balance
                            + Effect(timeline[1], applied_account[1], a)

====
